---- MODULE Spec2Model ----
(***************************************************************************)
(* Streaming aggregation engine of the UIDAI upload pages.                 *)
(*                                                                         *)
(*   variant = "uploadFile"            uploadFile() of the direct-upload   *)
(*                                     page (src/unnamed/part_000)         *)
(*   variant = "processDataWithSchema" processDataWithSchema() of the      *)
(*                                     schema-mapping page (src/script.js) *)
(*                                                                         *)
(* JavaScript strings are sequences of one-character strings, so that      *)
(* trim, toLowerCase, includes, startsWith, replace(/,/g,'') and           *)
(* parseFloat are computed character by character.  JavaScript numbers are *)
(* records [nan, n]: the cells of the data are integer counts, and NaN     *)
(* arises from undefined + number.                                         *)
(***************************************************************************)
EXTENDS Integers, Sequences, FiniteSets, TLC

(***************************************************************************)
(* Bounds of the model.                                                    *)
(***************************************************************************)
\* rows delivered by the parser over one whole job
MaxRecords == 2
\* rows in one chunk handed to the chunk callback
MaxChunkRows == 2
\* characters of a cell handed to the numeric coercion on its own
MaxCellLen == 3

(***************************************************************************)
(* JavaScript values.                                                      *)
(***************************************************************************)
\* the value undefined (a property that is not there)
UNDEFINED == <<"\\undefined">>

\* String(undefined)
UNDEFINED_STR == <<"u", "n", "d", "e", "f", "i", "n", "e", "d">>

\* the value null
NULL == <<"\\null">>

NaN == [nan |-> TRUE, n |-> 0]

Num(i) == [nan |-> FALSE, n |-> i]

\* a + b on numbers
Plus(a, b) == IF a.nan \/ b.nan THEN NaN ELSE Num(a.n + b.n)

\* a cell that holds a number and not a string: the mark, then the
\* characters String() gives for the number
NumberCell(text) == <<"\\number">> \o text

IsNumberCell(v) == v # <<>> /\ Head(v) = "\\number"

\* !v for a string, undefined, null or a number cell (0, -0 and NaN are falsy)
Falsy(v) ==
    \/ v \in {UNDEFINED, NULL, <<>>}
    \/ /\ IsNumberCell(v)
       /\ Tail(v) \in {<<"0">>, <<"-", "0">>, <<"N", "a", "N">>}

\* a || b
OrElse(a, b) == IF Falsy(a) THEN b ELSE a

UpperCase == <<"A", "B", "C", "D", "E", "F", "G", "H", "I", "J", "K", "L", "M",
               "N", "O", "P", "Q", "R", "S", "T", "U", "V", "W", "X", "Y", "Z">>

LowerCase == <<"a", "b", "c", "d", "e", "f", "g", "h", "i", "j", "k", "l", "m",
               "n", "o", "p", "q", "r", "s", "t", "u", "v", "w", "x", "y", "z">>

LowerChar(c) ==
    IF \E i \in 1..Len(UpperCase) : UpperCase[i] = c
    THEN LowerCase[CHOOSE i \in 1..Len(UpperCase) : UpperCase[i] = c]
    ELSE c

\* String.prototype.toLowerCase
toLowerCase(s) == [i \in 1..Len(s) |-> LowerChar(s[i])]

\* String.prototype.includes
includes(s, sub) ==
    \E i \in 1..(Len(s) - Len(sub) + 1) : SubSeq(s, i, i + Len(sub) - 1) = sub

\* String.prototype.startsWith
startsWith(s, p) == Len(s) >= Len(p) /\ SubSeq(s, 1, Len(p)) = p

IsSpace(c) == c = " "

RECURSIVE trimStart(_)
trimStart(s) == IF s # <<>> /\ IsSpace(Head(s)) THEN trimStart(Tail(s)) ELSE s

RECURSIVE trimEnd(_)
trimEnd(s) ==
    IF s # <<>> /\ IsSpace(s[Len(s)]) THEN trimEnd(SubSeq(s, 1, Len(s) - 1)) ELSE s

\* String.prototype.trim
trim(s) == trimEnd(trimStart(s))

\* s.replace(/,/g, '')
replaceCommas(s) == LET NotComma(c) == c # "," IN SelectSeq(s, NotComma)

\* String(v)
String(v) ==
    IF v = UNDEFINED THEN UNDEFINED_STR
    ELSE IF v = NULL THEN <<"n", "u", "l", "l">>
    ELSE IF IsNumberCell(v) THEN Tail(v)
    ELSE v

Digits == <<"0", "1", "2", "3", "4", "5", "6", "7", "8", "9">>

IsDigit(c) == \E i \in 1..Len(Digits) : Digits[i] = c

DigitVal(c) == (CHOOSE i \in 1..Len(Digits) : Digits[i] = c) - 1

\* the longest prefix of s made of digits
RECURSIVE DigitPrefix(_)
DigitPrefix(s) ==
    IF s # <<>> /\ IsDigit(Head(s)) THEN <<Head(s)>> \o DigitPrefix(Tail(s)) ELSE <<>>

RECURSIVE DigitsValue(_, _)
DigitsValue(s, acc) ==
    IF s = <<>> THEN acc ELSE DigitsValue(Tail(s), acc * 10 + DigitVal(Head(s)))

\* parseFloat on strings without '.', exponent or 'Infinity': leading white
\* space is skipped, an optional sign and the longest run of digits are read,
\* whatever follows is ignored; no digits gives NaN.
parseFloat(s) ==
    LET t == trimStart(s)
        signed == t # <<>> /\ Head(t) \in {"-", "+"}
        body == IF signed THEN Tail(t) ELSE t
        ds == DigitPrefix(body)
    IN  IF ds = <<>> THEN NaN
        ELSE IF signed /\ Head(t) = "-" THEN Num(0 - DigitsValue(ds, 0))
        ELSE Num(DigitsValue(ds, 0))

\* x || 0 on numbers
OrZero(x) == IF x.nan \/ x.n = 0 THEN Num(0) ELSE x

\* row[col]
Get(row, col) == IF col \in DOMAIN row THEN row[col] ELSE UNDEFINED

Range(s) == {s[i] : i \in 1..Len(s)}

(***************************************************************************)
(* Inputs: field names, headers, files and the cells of their rows.        *)
(***************************************************************************)
F_state == <<"s", "t", "a", "t", "e">>

F_State == <<"S", "t", "a", "t", "e">>

F_empty == <<>>

F_age == <<"a", "g", "e", "_", "1">>

F_bio == <<"b", "i", "o", "_", "2">>

F_cnt == <<"c", "n", "t">>

F_date == <<"d", "a", "t", "e">>

\* the one field name Papa.parse makes of the first line of a raw archive
F_raw == <<"P", "K">>

AllFields == {F_state, F_State, F_empty, F_age, F_bio, F_cnt, F_date, F_raw}

\* state,age_1,bio_2: the UIDAI layout
HdrStd == <<F_state, F_age, F_bio>>

\* State,date,cnt: no UIDAI column name, category columns found by sampling
HdrGeneric == <<F_State, F_date, F_cnt>>

\* ,age_1: the first column has no name and no column is called state
HdrNoName == <<F_empty, F_age>>

Headers == {HdrStd, HdrGeneric, HdrNoName}

\* the header of an archive read as delimited text
HdrRaw == <<F_raw>>

\* the cells a column of the input files holds
CellsOf(f) ==
    CASE f \in {F_state, F_State, F_empty} ->
            {<<"X">>, <<" ", "X">>, <<>>, <<" ">>, <<"1", "0">>, <<"2">>}
      [] f = F_age -> {<<"5">>, <<"-", "3">>}
      [] f = F_bio -> {<<"1", ",", "2">>}
      [] f = F_cnt -> {<<"7">>, <<"n">>}
      [] f = F_date -> {<<"d">>}
      [] f = F_raw -> {<<"?">>}

AllCells == UNION {CellsOf(f) : f \in AllFields}

\* the records a file with header h can hold, keyed by field name
RowsOf == [h \in Headers \cup {HdrRaw} |->
            {r \in [Range(h) -> AllCells] : \A f \in Range(h) : r[f] \in CellsOf(f)}]

\* a File or Blob holding delimited text with header h
CsvFile(h) == [kind |-> "csv", fields |-> h]

\* a ZIP archive whose .csv entries have the headers hs
ZipFile(hs) == [kind |-> "zip", entries |-> hs]

\* selectedFile = null
NoFile == [kind |-> "none"]

\* results.meta.fields of a source handed to Papa.parse
Fields(src) == IF src.kind = "csv" THEN src.fields ELSE HdrRaw

Files == {CsvFile(h) : h \in Headers}
            \cup {ZipFile(<<HdrStd, HdrStd>>), ZipFile(<<HdrNoName, HdrStd>>),
                  ZipFile(<<HdrGeneric, HdrStd>>)}

\* the batches of at most n rows the parser may hand to a chunk callback
Chunks(h, n) == UNION {[1..k -> RowsOf[h]] : k \in 0..n}

Min(a, b) == IF a < b THEN a ELSE b

(***************************************************************************)
(* Column role detection of uploadFile (chunk callback, first rows).       *)
(***************************************************************************)
\* Array.prototype.find: the first element satisfying Test, else undefined
\* (hits: the positions whose element satisfies the test)
find(keys, hits) ==
    IF hits = {} THEN UNDEFINED
    ELSE keys[CHOOSE i \in hits : \A j \in hits : i <= j]

\* keys[0]
First(keys) == IF keys = <<>> THEN UNDEFINED ELSE keys[1]

skipCols == {<<"d", "a", "t", "e">>,
             <<"p", "i", "n", "c", "o", "d", "e">>,
             <<"d", "i", "s", "t", "r", "i", "c", "t">>}

\* the grouping-key column chosen from the field list
DetectStateCol(keys) ==
    LET IsState(k) == toLowerCase(k) = <<"s", "t", "a", "t", "e">>
        HasState(k) == includes(toLowerCase(k), <<"s", "t", "a", "t", "e">>)
    IN  OrElse(find(keys, {i \in 1..Len(keys) : IsState(keys[i])}),
               OrElse(find(keys, {i \in 1..Len(keys) : HasState(keys[i])}),
                      First(keys)))

\* the name-based filter for category columns
UidaiCols(keys, sc) ==
    LET Keep(k) ==
            LET kLower == toLowerCase(k)
            IN  /\ k # sc
                /\ kLower \notin skipCols
                /\ \/ startsWith(kLower, <<"a", "g", "e", "_">>)
                   \/ startsWith(kLower, <<"b", "i", "o", "_">>)
                   \/ includes(kLower, <<"y", "r", "s">>)
                   \/ includes(kLower, <<"y", "e", "a", "r", "s">>)
    IN  SelectSeq(keys, Keep)

\* the fallback: columns whose cell in the first row parses as a number
NumericCols(keys, sc, row0) ==
    LET Keep(k) ==
            /\ k # sc
            /\ toLowerCase(k) \notin skipCols
            /\ ~parseFloat(replaceCommas(String(Get(row0, k)))).nan
    IN  SelectSeq(keys, Keep)

DetectAgeCols(keys, sc, row0) ==
    IF Len(UidaiCols(keys, sc)) = 0
    THEN NumericCols(keys, sc, row0)
    ELSE UidaiCols(keys, sc)

(***************************************************************************)
(* Accumulation.  globalAggregates is the object's own properties in the   *)
(* order they were created.                                                *)
(***************************************************************************)
\* the position of the property named key, 0 when there is none
IndexOf(agg, key) ==
    IF \E i \in 1..Len(agg) : agg[i].state = key
    THEN CHOOSE i \in 1..Len(agg) : agg[i].state = key
    ELSE 0

\* parseFloat(String(row[col]).replace(/,/g, '')) || 0
Coerce(cell) == OrZero(parseFloat(replaceCommas(String(cell))))

\* total += val; breakdown[col] += val   (undefined + val is NaN)
AddVal(g, col, val) ==
    [g EXCEPT !.total = Plus(@, val),
              !.breakdown = IF col \in DOMAIN @
                            THEN [@ EXCEPT ![col] = Plus(@, val)]
                            ELSE [c \in DOMAIN @ \cup {col} |->
                                    IF c = col THEN NaN ELSE @[c]]]

\* globalAgeCols.forEach(col => ...) on one group and one row
RECURSIVE AddCols(_, _, _)
AddCols(g, cols, row) ==
    IF cols = <<>> THEN g
    ELSE AddCols(AddVal(g, Head(cols), Coerce(Get(row, Head(cols)))), Tail(cols), row)

\* { state, total: 0, breakdown: {col: 0, ...} }
NewGroup(key, cols) ==
    [state |-> key, total |-> Num(0), breakdown |-> [c \in Range(cols) |-> Num(0)]]

\* the body of rows.forEach in uploadFile
ProcessRow(agg, row, sc, cols) ==
    LET state == Get(row, sc)
    IN  IF Falsy(state) \/ trim(state) = <<>> THEN agg
        ELSE LET key == trim(state)
                 agg1 == IF IndexOf(agg, key) = 0
                         THEN Append(agg, NewGroup(key, cols))
                         ELSE agg
                 i == IndexOf(agg1, key)
             IN  [agg1 EXCEPT ![i] = AddCols(@, cols, row)]

RECURSIVE ProcessRows(_, _, _, _)
ProcessRows(agg, rows, sc, cols) ==
    IF rows = <<>> THEN agg
    ELSE ProcessRows(ProcessRow(agg, Head(rows), sc, cols), Tail(rows), sc, cols)

(***************************************************************************)
(* Finalization: Object.values(globalAggregates), then Array.sort.         *)
(***************************************************************************)
\* an integer-index property name: a canonical decimal numeral (below
\* 2^32 - 1; every numeral of up to nine digits is)
IsArrayIndex(key) ==
    /\ key # <<>>
    /\ Len(key) <= 9
    /\ \A i \in 1..Len(key) : IsDigit(key[i])
    /\ (Len(key) = 1 \/ key[1] # "0")

\* the groups with integer-index names, in ascending numeric order
RECURSIVE Ascending(_)
Ascending(gs) ==
    IF gs = {} THEN <<>>
    ELSE LET g == CHOOSE x \in gs :
                    \A y \in gs : DigitsValue(x.state, 0) <= DigitsValue(y.state, 0)
         IN  <<g>> \o Ascending(gs \ {g})

\* Object.values: integer-index properties first, in ascending numeric
\* order, then the other properties in creation order
ObjectValues(agg) ==
    LET IsIndex(g) == IsArrayIndex(g.state)
        NotIndex(g) == ~IsArrayIndex(g.state)
    IN  Ascending(Range(SelectSeq(agg, IsIndex))) \o SelectSeq(agg, NotIndex)

\* insert g behind every element it does not sort before:
\* (a, b) => b.total - a.total puts a before b only when a.total > b.total
RECURSIVE InsertByTotal(_, _)
InsertByTotal(sorted, g) ==
    IF sorted = <<>> THEN <<g>>
    ELSE IF g.total.n > Head(sorted).total.n THEN <<g>> \o sorted
    ELSE <<Head(sorted)>> \o InsertByTotal(Tail(sorted), g)

\* Array.prototype.sort((a, b) => b.total - a.total), a stable sort
RECURSIVE SortByTotalFrom(_, _)
SortByTotalFrom(sorted, rest) ==
    IF rest = <<>> THEN sorted
    ELSE SortByTotalFrom(InsertByTotal(sorted, Head(rest)), Tail(rest))

SortByTotal(data) == SortByTotalFrom(<<>>, data)

\* { metadata: { ageCols, timestamp }, data }   (the timestamp is left out)
StoragePacket(cols, data) == [metadata |-> [ageCols |-> cols], data |-> data]

\* a dataset persisted by an earlier visit
OldPacket ==
    StoragePacket(<<F_age>>,
                  <<[state |-> <<"O">>, total |-> Num(1),
                     breakdown |-> [c \in {F_age} |-> Num(1)]]>>)

\* initDB of the upload pages: onupgradeneeded creates the store when the
\* open creates the database
Upgraded(d) == IF d = "absent" THEN "store" ELSE d

\* the errors a request of the object store fails with: the quota of the
\* origin is used up, or anything else
StoreErrors == {"QuotaExceededError", "UnknownError"}

\* what storeDataInDB rejects with: db.transaction throws when the store is
\* missing, else a request fails
StoreFailures(d) == IF d = "noStore" THEN {"NotFoundError"} ELSE StoreErrors

(***************************************************************************)
(* Messages of showError.                                                  *)
(***************************************************************************)
MsgColumns == "Could not identify data columns. Expected: age_0_5, age_5_17, age_18_greater or bio_* columns."

MsgNoData == "No valid data found in the selected file(s)."

MsgProcessing == "Error processing file data."

MsgFailed == "Processing failed"

\* the causes a running job fails with
Causes == StoreErrors \cup {"ParseError"}

\* catch (err) of uploadFile and catch (e) of processDataWithSchema: the
\* error goes to the console, the message shown does not depend on it
CatchMessage(v, err) ==
    IF v = "uploadFile" THEN MsgProcessing ELSE MsgFailed

(***************************************************************************)
(* State.                                                                  *)
(***************************************************************************)
VARIABLES
    variant,            \* which page script is loaded
    selectedFile,       \* let selectedFile
    extractedCsvFiles,  \* let extractedCsvFiles
    uploadBtnDisabled,  \* uploadBtn.disabled
    uploadingCardShown, \* uploadingCard.style.display = 'block'
    pc,                 \* where the job stands
    filesToProcess,     \* the sources of the running job
    fileIdx,            \* the source being parsed (position in filesToProcess)
    stateCol,           \* let stateCol
    globalAgeCols,      \* let globalAgeCols
    globalAggregates,   \* let globalAggregates
    analysisState,      \* script.js: analysisState.files and .headers
    mappings,           \* script.js: mappings.state and .ageCols
    storagePacket,      \* the argument of the pending storeDataInDB call
    db,                 \* the records of object store enrolment_data
    tx,                 \* the readwrite transaction of storeDataInDB
    errors,             \* the messages showError has shown
    redirected,         \* window.location.href = 'dashboard.html' (set or scheduled)
    storeCalls,         \* how often the job has called storeDataInDB
    delivered,          \* rows the parser has delivered in this job
    parseErrorAt,       \* the source whose parse called error (0: none has)
    ref,                \* per trimmed key and field, the sum of the coerced cells delivered
    cause,              \* what the failed await of the job was rejected with
    cancelRequested,    \* the file was removed (clearFile) while the job was running
    parsing,            \* the sources whose Papa.parse is started and has not ended
    extracting,         \* the archives whose extractCsvFromZip is pending
    atClick,            \* the sources of the selection uploadBtn was clicked on
    idb,                \* database UIDAI_Analytics_DB: absent, without or with its store
    arg,                \* the argument of a function applied on its own
    res,                \* its result
    build,              \* which dashboard script is loaded
    snapshotCode,       \* urlParams.get('snapshot')
    view,               \* what the dashboard page shows
    rendered,           \* the summary loadSnapshotData has put on the page
    dbRead,             \* getDataFromDB has been called by this page load
    ciphertext,         \* the argument of handleEncryptedSnapshot
    unlockPass,         \* the passwords submitted to unlockBtn, in order
    unlockError,        \* #unlockError: its text when displayed, "" when hidden
    escaped,            \* an exception has left a handler uncaught
    shared              \* what the sharer entered and the link made of it

\* the upload pages and their job
jobVars == <<variant, selectedFile, extractedCsvFiles, uploadBtnDisabled,
             uploadingCardShown, pc, filesToProcess, fileIdx, stateCol,
             globalAgeCols, globalAggregates, analysisState, mappings,
             storagePacket, db, tx, errors, redirected, storeCalls, delivered,
             parseErrorAt, ref, cause, cancelRequested, parsing, extracting, atClick>>

envVars == <<parsing, extracting, atClick>>

fnVars == <<arg, res>>

\* the dashboard page
shareVars == <<build, snapshotCode, view, rendered, dbRead, ciphertext, unlockPass,
               unlockError, escaped, shared>>

vars == <<jobVars, idb, fnVars, shareVars>>

pageVars == <<variant, selectedFile, extractedCsvFiles>>

schemaVars == <<analysisState, mappings>>

detectVars == <<stateCol, globalAgeCols>>

\* no function is applied on its own
FnIdle ==
    /\ arg = <<>>
    /\ res = <<>>

\* no dashboard page is open
ShareIdle ==
    /\ build = "none"
    /\ snapshotCode = "absent"
    /\ view = "closed"
    /\ rendered = [type |-> "undefined"]
    /\ dbRead = FALSE
    /\ ciphertext = [type |-> "undefined"]
    /\ unlockPass = <<>>
    /\ unlockError = ""
    /\ escaped = FALSE
    /\ shared = [made |-> FALSE]

\* what handleFileSelect leaves in extractedCsvFiles for file f
Extracted(f) ==
    IF f.kind = "zip"
    THEN [i \in 1..Len(f.entries) |-> [content |-> CsvFile(f.entries[i])]]
    ELSE <<>>

\* a file has been selected; the store holds the dataset of an earlier visit
Init ==
    /\ variant \in {"uploadFile", "processDataWithSchema"}
    /\ selectedFile \in Files
    /\ extractedCsvFiles =
            IF variant = "uploadFile" THEN Extracted(selectedFile) ELSE <<>>
    /\ uploadBtnDisabled = FALSE
    /\ uploadingCardShown = FALSE
    /\ pc = "idle"
    /\ filesToProcess = <<>>
    /\ fileIdx = 0
    /\ stateCol = <<>>
    /\ globalAgeCols = <<>>
    /\ globalAggregates = <<>>
    /\ analysisState = [files |-> <<>>, headers |-> <<>>]
    /\ mappings = [state |-> <<>>, ageCols |-> <<>>]
    /\ storagePacket = StoragePacket(<<>>, <<>>)
    /\ db = <<OldPacket>>
    /\ tx = "none"
    /\ errors = <<>>
    /\ redirected = FALSE
    /\ storeCalls = 0
    /\ delivered = 0
    /\ parseErrorAt = 0
    /\ ref = <<>>
    /\ cause = "none"
    /\ cancelRequested = FALSE
    /\ parsing = {}
    /\ extracting = {}
    /\ atClick = <<>>
    /\ idb = "store"
    /\ FnIdle
    /\ ShareIdle

\* the ghost sum: one delivered row, grouped by column sc
RefAdd(r, row, sc) ==
    LET state == Get(row, sc)
    IN  IF Falsy(state) \/ trim(state) = <<>> THEN r
        ELSE LET key == trim(state)
             IN  [k \in DOMAIN r \cup {key} |->
                    IF k = key
                    THEN [f \in AllFields |->
                            (IF key \in DOMAIN r THEN r[key][f] ELSE 0)
                                + Coerce(Get(row, f)).n]
                    ELSE r[k]]

RECURSIVE RefAddRows(_, _, _)
RefAddRows(r, rows, sc) ==
    IF rows = <<>> THEN r ELSE RefAddRows(RefAdd(r, Head(rows), sc), Tail(rows), sc)

(***************************************************************************)
(* uploadFile of the direct-upload page.                                   *)
(***************************************************************************)
\* let filesToProcess = ...
FilesToProcess ==
    IF Len(extractedCsvFiles) > 0
    THEN [i \in 1..Len(extractedCsvFiles) |-> extractedCsvFiles[i].content]
    ELSE IF selectedFile # NoFile THEN <<selectedFile>>
    ELSE <<>>

\* click on uploadBtn: uploadFile up to its first await
UploadClick ==
    /\ variant = "uploadFile"
    /\ pc = "idle"
    /\ ~uploadBtnDisabled
    /\ selectedFile # NoFile
    /\ pc' = "progress"
    /\ atClick' = FilesToProcess
    /\ uploadBtnDisabled' = TRUE
    /\ uploadingCardShown' = TRUE
    /\ UNCHANGED <<pageVars, filesToProcess, fileIdx, detectVars, globalAggregates,
                   schemaVars, storagePacket, db, errors, redirected, storeCalls,
                   delivered, ref, parseErrorAt, tx,
                   cause, cancelRequested, parsing, extracting, idb, fnVars, shareVars>>

\* the code behind the for loop over filesToProcess: the validity check, the
\* sort, the call of storeDataInDB, or a failure
AfterLoop(sc, cols, agg) ==
    IF Falsy(sc) \/ Len(cols) = 0
    THEN [pc |-> "failed", errors |-> <<MsgColumns>>, packet |-> storagePacket, calls |-> 0]
    ELSE IF Len(ObjectValues(agg)) > 0
    THEN [pc |-> "storing", errors |-> <<>>,
          packet |-> StoragePacket(cols, SortByTotal(ObjectValues(agg))), calls |-> 1]
    ELSE [pc |-> "failed", errors |-> <<MsgNoData>>, packet |-> storagePacket, calls |-> 0]

\* for (const file of filesToProcess) await processFileStream(file): the
\* parses running once the loop has reached source i
StartedAll(i, files) == i..Len(files)

Started(i, files) == IF i <= Len(files) THEN {i} ELSE {}

\* the simulated progress is over: the sources are chosen and the first
\* Papa.parse is started
ProgressDone ==
    /\ variant = "uploadFile"
    /\ pc = "progress"
    /\ filesToProcess' = FilesToProcess
    /\ parsing' = Started(1, FilesToProcess)
    /\ stateCol' = <<>>
    /\ globalAgeCols' = <<>>
    /\ globalAggregates' = <<>>
    /\ IF Len(FilesToProcess) > 0
       THEN /\ pc' = "parsing"
            /\ fileIdx' = 1
            /\ UNCHANGED <<uploadBtnDisabled, uploadingCardShown, storagePacket,
                           tx, errors, storeCalls>>
       ELSE LET out == AfterLoop(<<>>, <<>>, <<>>)
            IN  /\ pc' = out.pc
                /\ fileIdx' = 1
                /\ errors' = errors \o out.errors
                /\ storagePacket' = out.packet
                /\ tx' = IF out.pc = "storing" THEN "active" ELSE tx
                /\ storeCalls' = storeCalls + out.calls
                /\ uploadBtnDisabled' = (out.pc # "failed" /\ uploadBtnDisabled)
                /\ uploadingCardShown' = (out.pc # "failed" /\ uploadingCardShown)
    /\ UNCHANGED <<pageVars, schemaVars, db, redirected, delivered, ref, parseErrorAt,
                   cause, cancelRequested, extracting, atClick, idb, fnVars, shareVars>>

\* chunk: function (results): the roles and the aggregates after the callback
\* has run on rows of a source with the fields keys
ChunkCallback(sc0, cols0, agg, keys, rows) ==
    IF Len(rows) = 0
    THEN [stateCol |-> sc0, globalAgeCols |-> cols0, globalAggregates |-> agg]
    ELSE LET sc == IF Falsy(sc0) THEN DetectStateCol(keys) ELSE sc0
             cols == IF Falsy(sc0) THEN DetectAgeCols(keys, sc, rows[1]) ELSE cols0
         IN  [stateCol |-> sc, globalAgeCols |-> cols,
              globalAggregates |-> ProcessRows(agg, rows, sc, cols)]

\* the chunk callback of processFileStream on rows of the current source
UploadChunk ==
    /\ variant = "uploadFile"
    /\ pc = "parsing"
    /\ \E i \in parsing :
       \E rows \in Chunks(Fields(filesToProcess[i]),
                          Min(MaxChunkRows, MaxRecords - delivered)) :
         LET out == ChunkCallback(stateCol, globalAgeCols, globalAggregates,
                                  Fields(filesToProcess[i]), rows)
         IN  /\ stateCol' = out.stateCol
             /\ globalAgeCols' = out.globalAgeCols
             /\ globalAggregates' = out.globalAggregates
             /\ delivered' = delivered + Len(rows)
             /\ ref' = RefAddRows(ref, rows, out.stateCol)
    /\ UNCHANGED <<pageVars, uploadBtnDisabled, uploadingCardShown, pc,
                   filesToProcess, fileIdx, schemaVars, storagePacket, db, errors,
                   redirected, storeCalls, parseErrorAt, tx,
                   cause, cancelRequested, envVars, idb, fnVars, shareVars>>

\* complete: resolve(); the loop goes on to the next source or ends
UploadComplete ==
    /\ variant = "uploadFile"
    /\ pc = "parsing"
    /\ IF fileIdx < Len(filesToProcess)
       THEN /\ fileIdx' = fileIdx + 1
            /\ UNCHANGED idb
            /\ parsing' = (parsing \ {fileIdx}) \cup Started(fileIdx + 1, filesToProcess)
            /\ UNCHANGED <<pc, errors, storagePacket, tx, storeCalls,
                           uploadBtnDisabled, uploadingCardShown>>
       ELSE LET out == AfterLoop(stateCol, globalAgeCols, globalAggregates)
            IN  /\ pc' = out.pc
                /\ idb' = IF out.pc = "storing" THEN Upgraded(idb) ELSE idb
                /\ errors' = errors \o out.errors
                /\ storagePacket' = out.packet
                /\ tx' = IF out.pc = "storing" THEN "active" ELSE tx
                /\ storeCalls' = storeCalls + out.calls
                /\ uploadBtnDisabled' = (out.pc # "failed" /\ uploadBtnDisabled)
                /\ uploadingCardShown' = (out.pc # "failed" /\ uploadingCardShown)
                /\ parsing' = parsing \ {fileIdx}
                /\ UNCHANGED fileIdx
    /\ UNCHANGED <<pageVars, filesToProcess, detectVars, globalAggregates,
                   schemaVars, db, redirected, delivered, ref, parseErrorAt,
                   cause, cancelRequested, extracting, atClick, fnVars, shareVars>>

\* UploadParserError with resolve() in place of reject(err): the loop goes on
UploadParserErrorResolves ==
    /\ variant = "uploadFile"
    /\ pc = "parsing"
    /\ parseErrorAt' = fileIdx
    /\ UNCHANGED cause
    /\ IF fileIdx < Len(filesToProcess)
       THEN /\ fileIdx' = fileIdx + 1
            /\ UNCHANGED idb
            /\ parsing' = (parsing \ {fileIdx}) \cup Started(fileIdx + 1, filesToProcess)
            /\ UNCHANGED <<pc, errors, storagePacket, tx, storeCalls,
                           uploadBtnDisabled, uploadingCardShown>>
       ELSE LET out == AfterLoop(stateCol, globalAgeCols, globalAggregates)
            IN  /\ pc' = out.pc
                /\ idb' = IF out.pc = "storing" THEN Upgraded(idb) ELSE idb
                /\ errors' = errors \o out.errors
                /\ storagePacket' = out.packet
                /\ tx' = IF out.pc = "storing" THEN "active" ELSE tx
                /\ storeCalls' = storeCalls + out.calls
                /\ uploadBtnDisabled' = (out.pc # "failed" /\ uploadBtnDisabled)
                /\ uploadingCardShown' = (out.pc # "failed" /\ uploadingCardShown)
                /\ parsing' = parsing \ {fileIdx}
                /\ UNCHANGED fileIdx
    /\ UNCHANGED <<pageVars, filesToProcess, detectVars, globalAggregates,
                   schemaVars, db, redirected, delivered, ref,
                   cancelRequested, extracting, atClick, fnVars, shareVars>>

\* error: reject(err); the await throws into the inner catch
UploadParserError ==
    /\ variant = "uploadFile"
    /\ pc = "parsing"
    /\ pc' = "failed"
    /\ parsing' = parsing \ {fileIdx}
    /\ parseErrorAt' = fileIdx
    /\ cause' = "ParseError"
    /\ errors' = Append(errors, CatchMessage(variant, cause'))
    /\ uploadBtnDisabled' = FALSE
    /\ uploadingCardShown' = FALSE
    /\ UNCHANGED <<pageVars, filesToProcess, fileIdx, detectVars, globalAggregates,
                   schemaVars, storagePacket, db, redirected, storeCalls, delivered, ref, tx,
                   cancelRequested, extracting, atClick, idb, fnVars, shareVars>>

\* putRequest.onsuccess: storeDataInDB resolves while the transaction is
\* still to commit; success modal, redirect timer
UploadStored ==
    /\ variant = "uploadFile"
    /\ pc = "storing"
    /\ tx = "active"
    /\ idb = "store"
    /\ redirected' = TRUE
    /\ pc' = "done"
    /\ UNCHANGED <<db, tx, pageVars, uploadBtnDisabled, uploadingCardShown, filesToProcess,
                   fileIdx, detectVars, globalAggregates, schemaVars, storagePacket,
                   errors, storeCalls, delivered, ref, parseErrorAt,
                   cause, cancelRequested, envVars, idb, fnVars, shareVars>>

\* the transaction of the put commits: the record is written
UploadTxCommitted ==
    /\ variant = "uploadFile"
    /\ pc = "done"
    /\ tx = "active"
    /\ tx' = "committed"
    /\ db' = <<storagePacket>>
    /\ UNCHANGED <<pageVars, uploadBtnDisabled, uploadingCardShown, pc, filesToProcess,
                   fileIdx, detectVars, globalAggregates, schemaVars, storagePacket,
                   errors, redirected, storeCalls, delivered, parseErrorAt, ref,
                   cause, cancelRequested, envVars, idb, fnVars, shareVars>>

\* the commit fails (quota, I/O): the transaction aborts behind the success
\* event of its request, and nothing listens to it
UploadTxAborted ==
    /\ variant = "uploadFile"
    /\ pc = "done"
    /\ tx = "active"
    /\ tx' = "aborted"
    /\ UNCHANGED <<pageVars, uploadBtnDisabled, uploadingCardShown, pc, filesToProcess,
                   fileIdx, detectVars, globalAggregates, schemaVars, storagePacket,
                   db, errors, redirected, storeCalls, delivered, parseErrorAt, ref,
                   cause, cancelRequested, envVars, idb, fnVars, shareVars>>

\* storeDataInDB rejects (open or put failed): the inner catch
UploadStoreFailed ==
    /\ variant = "uploadFile"
    /\ pc = "storing"
    /\ tx = "active"
    /\ tx' = "aborted"
    /\ cause' \in StoreFailures(idb)
    /\ pc' = "failed"
    /\ errors' = Append(errors, CatchMessage(variant, cause'))
    /\ uploadBtnDisabled' = FALSE
    /\ uploadingCardShown' = FALSE
    /\ UNCHANGED <<pageVars, filesToProcess, fileIdx, detectVars, globalAggregates,
                   schemaVars, storagePacket, db, redirected, storeCalls, delivered, ref,
                   parseErrorAt,
                   cancelRequested, envVars, idb, fnVars, shareVars>>

\* the jobs in progress: between the click on uploadBtn and the end of the job
Running == pc \in {"progress", "parsing", "storing"}

\* click on removeBtn: clearFile(). It drops the selection and hides the
\* uploading card; uploadCancelled is not written, and nothing of uploadFile
\* reads it. cancelRequested records that the file was removed under a
\* running job
ClearFile ==
    /\ variant = "uploadFile"
    /\ selectedFile # NoFile
    /\ selectedFile' = NoFile
    /\ extractedCsvFiles' = <<>>
    /\ uploadBtnDisabled' = TRUE
    /\ uploadingCardShown' = FALSE
    /\ cancelRequested' = (cancelRequested \/ Running)
    /\ UNCHANGED <<variant, pc, filesToProcess, fileIdx, detectVars, globalAggregates,
                   schemaVars, storagePacket, db, errors, redirected, storeCalls,
                   delivered, ref, parseErrorAt, tx, cause, envVars, idb, fnVars, shareVars>>

(***************************************************************************)
(* uploadFile and processDataWithSchema of the schema-mapping page.        *)
(***************************************************************************)
\* click on uploadBtn: the archive is unpacked, analyzeHeaders reads the
\* header of the first file and the schema form is shown
AnalyzeClick ==
    /\ variant = "processDataWithSchema"
    /\ pc = "idle"
    /\ ~uploadBtnDisabled
    /\ selectedFile # NoFile
    /\ LET files == IF selectedFile.kind = "zip"
                    THEN [i \in 1..Len(selectedFile.entries) |->
                            [content |-> CsvFile(selectedFile.entries[i])]]
                    ELSE <<[content |-> selectedFile]>>
       IN  /\ extractedCsvFiles' = files
           /\ analysisState' = [files |-> files, headers |-> files[1].content.fields]
    /\ uploadBtnDisabled' = TRUE
    /\ pc' = "schema"
    /\ UNCHANGED <<variant, selectedFile, uploadingCardShown, filesToProcess, fileIdx,
                   detectVars, globalAggregates, mappings, storagePacket, db, errors,
                   redirected, storeCalls, delivered, ref, parseErrorAt, tx,
                   cause, cancelRequested, envVars, idb, fnVars, shareVars>>

\* mappings.ageCols
SchemaAgeCols(headers) ==
    LET IsAge(h) ==
            \/ startsWith(toLowerCase(h), <<"a", "g", "e">>)
            \/ includes(toLowerCase(h), <<"y", "e", "a", "r", "s">>)
            \/ includes(toLowerCase(h), <<"y", "r", "s">>)
            \/ includes(toLowerCase(h), <<"d", "e", "m", "o", "_", "a", "g", "e">>)
    IN  SelectSeq(headers, IsAge)

\* click on proceedToDashboardBtn with mapState.value = st: processDataWithSchema
\* up to the first Papa.parse
ProceedClick ==
    /\ variant = "processDataWithSchema"
    /\ pc = "schema"
    /\ \E st \in {h \in Range(analysisState.headers) : ~Falsy(h)} :
         mappings' = [state |-> st, ageCols |-> SchemaAgeCols(analysisState.headers)]
    /\ globalAggregates' = <<>>
    /\ filesToProcess' =
            [i \in 1..Len(analysisState.files) |-> analysisState.files[i].content]
    /\ fileIdx' = 1
    /\ parsing' = Started(1, analysisState.files)
    /\ pc' = "parsing"
    /\ UNCHANGED <<pageVars, uploadBtnDisabled, uploadingCardShown, detectVars,
                   analysisState, storagePacket, db, errors, redirected, storeCalls,
                   delivered, ref, parseErrorAt, tx,
                   cause, cancelRequested, extracting, atClick, idb, fnVars, shareVars>>

Unknown == <<"U", "n", "k", "n", "o", "w", "n">>

\* parseFloat(String(row[ac] || '0').replace(/,/g, '')) || 0
CoerceSchema(cell) ==
    OrZero(parseFloat(replaceCommas(String(OrElse(cell, <<"0">>)))))

RECURSIVE AddColsSchema(_, _, _)
AddColsSchema(g, cols, row) ==
    IF cols = <<>> THEN g
    ELSE AddColsSchema(AddVal(g, Head(cols), CoerceSchema(Get(row, Head(cols)))),
                       Tail(cols), row)

\* the body of rows.forEach in processDataWithSchema
ProcessRowSchema(agg, row, m) ==
    LET stateVal == OrElse(Get(row, m.state), Unknown)
        agg1 == IF IndexOf(agg, stateVal) = 0
                THEN Append(agg, NewGroup(stateVal, m.ageCols))
                ELSE agg
        i == IndexOf(agg1, stateVal)
    IN  [agg1 EXCEPT ![i] = AddColsSchema(@, m.ageCols, row)]

RECURSIVE ProcessRowsSchema(_, _, _)
ProcessRowsSchema(agg, rows, m) ==
    IF rows = <<>> THEN agg
    ELSE ProcessRowsSchema(ProcessRowSchema(agg, Head(rows), m), Tail(rows), m)

\* the chunk callback of processStream
SchemaChunk ==
    /\ variant = "processDataWithSchema"
    /\ pc = "parsing"
    /\ \E i \in parsing :
       \E rows \in Chunks(filesToProcess[i].fields,
                          Min(MaxChunkRows, MaxRecords - delivered)) :
         /\ globalAggregates' = ProcessRowsSchema(globalAggregates, rows, mappings)
         /\ delivered' = delivered + Len(rows)
         /\ ref' = RefAddRows(ref, rows, mappings.state)
    /\ UNCHANGED <<pageVars, uploadBtnDisabled, uploadingCardShown, pc,
                   filesToProcess, fileIdx, detectVars, schemaVars, storagePacket,
                   db, errors, redirected, storeCalls, parseErrorAt, tx,
                   cause, cancelRequested, envVars, idb, fnVars, shareVars>>

\* complete: resolve; the next source, or the sort and the call of storeDataInDB
SchemaComplete ==
    /\ variant = "processDataWithSchema"
    /\ pc = "parsing"
    /\ IF fileIdx < Len(filesToProcess)
       THEN /\ fileIdx' = fileIdx + 1
            /\ UNCHANGED idb
            /\ parsing' = (parsing \ {fileIdx}) \cup Started(fileIdx + 1, filesToProcess)
            /\ UNCHANGED <<pc, storagePacket, tx, storeCalls>>
       ELSE /\ tx' = "active"
            /\ idb' = Upgraded(idb)
            /\ storagePacket' =
                    StoragePacket(mappings.ageCols,
                                  SortByTotal(ObjectValues(globalAggregates)))
            /\ storeCalls' = storeCalls + 1
            /\ pc' = "storing"
            /\ parsing' = parsing \ {fileIdx}
            /\ UNCHANGED fileIdx
    /\ UNCHANGED <<pageVars, uploadBtnDisabled, uploadingCardShown, filesToProcess,
                   detectVars, globalAggregates, schemaVars, db, errors, redirected,
                   delivered, ref, parseErrorAt,
                   cause, cancelRequested, extracting, atClick, fnVars, shareVars>>

\* error: reject; the await throws into the catch
SchemaParserError ==
    /\ variant = "processDataWithSchema"
    /\ pc = "parsing"
    /\ pc' = "failed"
    /\ parsing' = parsing \ {fileIdx}
    /\ parseErrorAt' = fileIdx
    /\ cause' = "ParseError"
    /\ errors' = Append(errors, CatchMessage(variant, cause'))
    /\ UNCHANGED <<pageVars, uploadBtnDisabled, uploadingCardShown, filesToProcess,
                   fileIdx, detectVars, globalAggregates, schemaVars, storagePacket,
                   db, redirected, storeCalls, delivered, ref, tx,
                   cancelRequested, extracting, atClick, idb, fnVars, shareVars>>

\* tx.oncomplete: the record is written, storeDataInDB resolves: redirect
SchemaStored ==
    /\ variant = "processDataWithSchema"
    /\ pc = "storing"
    /\ tx = "active"
    /\ idb = "store"
    /\ tx' = "committed"
    /\ db' = <<storagePacket>>
    /\ redirected' = TRUE
    /\ pc' = "done"
    /\ UNCHANGED <<pageVars, uploadBtnDisabled, uploadingCardShown, filesToProcess,
                   fileIdx, detectVars, globalAggregates, schemaVars, storagePacket,
                   errors, storeCalls, delivered, ref, parseErrorAt,
                   cause, cancelRequested, envVars, idb, fnVars, shareVars>>

\* the commit fails: the transaction aborts with no error event of a
\* request, tx.onerror does not run and the promise stays pending
SchemaTxAborted ==
    /\ variant = "processDataWithSchema"
    /\ pc = "storing"
    /\ tx = "active"
    /\ tx' = "aborted"
    /\ UNCHANGED <<pageVars, uploadBtnDisabled, uploadingCardShown, pc, filesToProcess,
                   fileIdx, detectVars, globalAggregates, schemaVars, storagePacket,
                   db, errors, redirected, storeCalls, delivered, parseErrorAt, ref,
                   cause, cancelRequested, envVars, idb, fnVars, shareVars>>

\* storeDataInDB rejects (open failed, or tx.onerror): the catch
SchemaStoreFailed ==
    /\ variant = "processDataWithSchema"
    /\ pc = "storing"
    /\ tx = "active"
    /\ tx' = "aborted"
    /\ cause' \in StoreFailures(idb)
    /\ pc' = "failed"
    /\ errors' = Append(errors, CatchMessage(variant, cause'))
    /\ UNCHANGED <<pageVars, uploadBtnDisabled, uploadingCardShown, filesToProcess,
                   fileIdx, detectVars, globalAggregates, schemaVars, storagePacket,
                   db, redirected, storeCalls, delivered, ref, parseErrorAt,
                   cancelRequested, envVars, idb, fnVars, shareVars>>

Next ==
    \/ UploadClick
    \/ ProgressDone
    \/ UploadChunk
    \/ UploadComplete
    \/ UploadParserError
    \/ UploadStored
    \/ UploadTxCommitted
    \/ UploadTxAborted
    \/ UploadStoreFailed
    \/ ClearFile
    \/ AnalyzeClick
    \/ ProceedClick
    \/ SchemaChunk
    \/ SchemaComplete
    \/ SchemaParserError
    \/ SchemaStored
    \/ SchemaTxAborted
    \/ SchemaStoreFailed

Spec == Init /\ [][Next]_vars

\* the timers of the simulated progress fire, the parser signals complete or
\* error for every source, the store answers and the transaction ends
Fairness ==
    /\ WF_vars(ProgressDone)
    /\ WF_vars(UploadComplete \/ UploadParserError)
    /\ WF_vars(UploadStored \/ UploadStoreFailed)
    /\ WF_vars(UploadTxCommitted \/ UploadTxAborted)

SpecFair == Init /\ [][Next]_vars /\ Fairness
(***************************************************************************)
(* The numeric coercion applied on its own to one cell value.              *)
(***************************************************************************)
\* no upload page is open
JobClosed ==
    /\ variant = "none"
    /\ selectedFile = NoFile
    /\ extractedCsvFiles = <<>>
    /\ uploadBtnDisabled = TRUE
    /\ uploadingCardShown = FALSE
    /\ pc = "idle"
    /\ filesToProcess = <<>>
    /\ fileIdx = 0
    /\ stateCol = <<>>
    /\ globalAgeCols = <<>>
    /\ globalAggregates = <<>>
    /\ analysisState = [files |-> <<>>, headers |-> <<>>]
    /\ mappings = [state |-> <<>>, ageCols |-> <<>>]
    /\ storagePacket = StoragePacket(<<>>, <<>>)
    /\ tx = "none"
    /\ errors = <<>>
    /\ redirected = FALSE
    /\ storeCalls = 0
    /\ delivered = 0
    /\ parseErrorAt = 0
    /\ ref = <<>>
    /\ cause = "none"
    /\ cancelRequested = FALSE
    /\ parsing = {}
    /\ extracting = {}
    /\ atClick = <<>>

\* the characters of the cells tried
CellChars == {"1", "2", ",", "a", "-", " "}

\* the strings of up to n characters
CellStrings(n) == UNION {[1..k -> CellChars] : k \in 0..n}

\* "1,234", "abc", "12abc"
CellExamples ==
    {<<"1", ",", "2", "3", "4">>, <<"a", "b", "c">>, <<"1", "2", "a", "b", "c">>}

\* a cell: a string, undefined, null, or a number
CellValues ==
    CellStrings(MaxCellLen) \cup CellExamples \cup {UNDEFINED, NULL}
        \cup {NumberCell(<<"0">>), NumberCell(<<"1", "2">>), NumberCell(<<"-", "3">>),
              NumberCell(<<"N", "a", "N">>)}

InitCoerce ==
    /\ JobClosed
    /\ db = <<>>
    /\ idb = "absent"
    /\ FnIdle
    /\ ShareIdle

\* val of uploadFile for one cell
CoerceCell ==
    /\ \E cell \in CellValues :
          /\ arg' = cell
          /\ res' = [fn |-> "uploadFile", val |-> Coerce(cell)]
    /\ UNCHANGED <<jobVars, idb, shareVars>>

\* val of processDataWithSchema for one cell
CoerceCellSchema ==
    /\ \E cell \in CellValues :
          /\ arg' = cell
          /\ res' = [fn |-> "processDataWithSchema", val |-> CoerceSchema(cell)]
    /\ UNCHANGED <<jobVars, idb, shareVars>>

NextCoerce ==
    \/ CoerceCell
    \/ CoerceCellSchema

SpecCoerce == InitCoerce /\ [][NextCoerce]_vars

(***************************************************************************)
(* The detection of the grouping-key column, applied on its own.           *)
(***************************************************************************)
MaxFields == 3

F_mystate == <<"m", "y", "S", "t", "a", "t", "e">>

F_district == <<"d", "i", "s", "t", "r", "i", "c", "t">>

\* the field names of the headers tried
KeyFields == {F_state, F_State, F_mystate, F_district, F_date, F_empty}

\* results.meta.fields: the headers of up to MaxFields fields
KeyHeaders == UNION {[1..k -> KeyFields] : k \in 0..MaxFields}

\* stateCol of the chunk callback for one header
DetectKey ==
    /\ res = <<>>
    /\ \E keys \in KeyHeaders :
          /\ arg' = keys
          /\ res' = [fn |-> "stateCol", val |-> DetectStateCol(keys)]
    /\ UNCHANGED <<jobVars, idb, shareVars>>

NextDetect ==
    \/ DetectKey

SpecDetect == InitCoerce /\ [][NextDetect]_vars

(***************************************************************************)
(* The job of uploadFile as a function of its sources, applied on its own. *)
(***************************************************************************)
MaxSourceRows == 1

\* a source: the fields of its header and its records, delivered in one chunk
Sources ==
    UNION {{[fields |-> h, rows |-> rs] : rs \in Chunks(h, MaxSourceRows)} : h \in Headers}

\* for (const file of filesToProcess) await processFileStream(file)
RECURSIVE ProcessSources(_, _)
ProcessSources(st, srcs) ==
    IF srcs = <<>> THEN st
    ELSE ProcessSources(ChunkCallback(st.stateCol, st.globalAgeCols, st.globalAggregates,
                                      Head(srcs).fields, Head(srcs).rows),
                        Tail(srcs))

\* what the job on srcs hands to storeDataInDB: the groups, or nothing
JobGroups(srcs) ==
    LET st == ProcessSources([stateCol |-> <<>>, globalAgeCols |-> <<>>,
                              globalAggregates |-> <<>>], srcs)
        out == AfterLoop(st.stateCol, st.globalAgeCols, st.globalAggregates)
    IN  IF out.pc = "storing"
        THEN [stored |-> TRUE, groups |-> Range(out.packet.data)]
        ELSE [stored |-> FALSE, groups |-> {}]

\* the job on two sources, in the order given and in the other order
AggregateBothWays ==
    /\ res = <<>>
    /\ \E a \in Sources, b \in Sources :
          /\ arg' = <<a, b>>
          /\ res' = [fn |-> "uploadFile", given |-> JobGroups(<<a, b>>),
                     swapped |-> JobGroups(<<b, a>>)]
    /\ UNCHANGED <<jobVars, idb, shareVars>>

NextOrder ==
    \/ AggregateBothWays

SpecOrder == InitCoerce /\ [][NextOrder]_vars

(***************************************************************************)
(* Properties.                                                             *)
(***************************************************************************)
\* Object.values(breakdown) summed with +
RECURSIVE SumOf(_, _)
SumOf(b, cols) ==
    IF cols = {} THEN Num(0)
    ELSE LET c == CHOOSE x \in cols : TRUE
         IN  Plus(b[c], SumOf(b, cols \ {c}))

\* a === b on numbers
NumEq(a, b) == ~a.nan /\ ~b.nan /\ a.n = b.n

\* the job has left the loop over its sources without a parser error
Exhausted ==
    /\ pc \in {"storing", "done", "failed"}
    /\ parseErrorAt = 0

\* the groups handed to storeDataInDB
Persisted == storagePacket.data

\* C1: after every processed record, in every state of a job, each group's
\* total equals the sum of the values of its breakdown.
C1_TotalIsBreakdownSum ==
    \A i \in 1..Len(globalAggregates) :
        NumEq(globalAggregates[i].total,
              SumOf(globalAggregates[i].breakdown, DOMAIN globalAggregates[i].breakdown))

\* C2: when a job of uploadFile has finished successfully, the result holds
\* exactly one group per distinct non-blank trimmed key of the records
\* delivered, and each breakdown entry of each category column is the sum of
\* the coerced cells of the records with that key.
C2_ResultIsSumOfRecords ==
    (variant = "uploadFile" /\ pc = "done") =>
        /\ {Persisted[i].state : i \in 1..Len(Persisted)} = DOMAIN ref
        /\ Len(Persisted) = Cardinality(DOMAIN ref)
        /\ \A i \in 1..Len(Persisted) :
             \A c \in Range(globalAgeCols) :
                /\ c \in DOMAIN Persisted[i].breakdown
                /\ NumEq(Persisted[i].breakdown[c], Num(ref[Persisted[i].state][c]))

\* C3: the groups handed to persistence are sorted non-increasing by total,
\* and groups with equal totals keep the order in which their keys were first
\* encountered, whatever the key strings are.
C3_SortedStable ==
    pc \in {"storing", "done"} =>
        \A i \in 1..Len(Persisted) : \A j \in 1..Len(Persisted) :
            i < j =>
                /\ Persisted[i].total.n >= Persisted[j].total.n
                /\ Persisted[i].total.n = Persisted[j].total.n =>
                      IndexOf(globalAggregates, Persisted[i].state)
                        < IndexOf(globalAggregates, Persisted[j].state)

\* C4: a record with an absent or blank key creates no group and adds to no
\* total, and a job whose records all have blank keys ends in the
\* empty-result failure, never with a group keyed by an empty or placeholder
\* string.
C4_BlankKeysSkipped ==
    /\ \A i \in 1..Len(globalAggregates) :
          /\ trim(globalAggregates[i].state) # <<>>
          /\ globalAggregates[i].state # Unknown
          /\ trim(globalAggregates[i].state) \in DOMAIN ref
    /\ (Exhausted /\ delivered > 0 /\ DOMAIN ref = {}) =>
          /\ pc = "failed"
          /\ errors = <<MsgNoData>>

\* C5: whenever the sources of a job are exhausted with zero groups, the job
\* ends in the empty-result failure and nothing is written to the store.
C5_NoGroupsMeansEmptyResult ==
    (Exhausted /\ globalAggregates = <<>>) =>
        /\ pc = "failed"
        /\ errors = <<MsgNoData>>
        /\ storeCalls = 0
        /\ db = <<OldPacket>>

\* column detection has run and has found no category column
DetectedNothing ==
    /\ variant = "uploadFile"
    /\ pc \in {"parsing", "storing", "done", "failed"}
    /\ ~Falsy(stateCol)
    /\ Len(globalAgeCols) = 0

\* C6: a job whose detection yields zero category columns always ends in the
\* schema-detection failure: no storeDataInDB, no redirect.
C6_NoColumnsMeansSchemaFailure ==
    DetectedNothing =>
        /\ storeCalls = 0
        /\ ~redirected
        /\ pc # "parsing" => (pc = "failed" /\ errors = <<MsgColumns>>)

\* C7: when no category column is detectable the job fails before any
\* aggregation: the detecting step creates no group, and once detection has
\* failed no further chunk or source is consumed.
C7_FailsBeforeAggregation ==
    [][DetectedNothing' =>
          /\ globalAggregates' = <<>>
          /\ DetectedNothing => (delivered' = delivered /\ fileIdx' = fileIdx)]_vars

\* C8: once the parser has reported an error on a source, the job has failed,
\* no later source is parsed, storeDataInDB is not called and the dataset
\* persisted before is unchanged.
C8_ParserErrorFailsJob ==
    parseErrorAt # 0 =>
        /\ pc = "failed"
        /\ Len(errors) = 1
        /\ fileIdx = parseErrorAt
        /\ storeCalls = 0
        /\ ~redirected
        /\ db = <<OldPacket>>

\* C8 witness: the parser fails on the first of two sources after rows of it
\* have been aggregated.
C8_Witness ==
    /\ parseErrorAt = 1
    /\ Len(filesToProcess) = 2
    /\ Len(globalAggregates) > 0
    /\ pc = "failed"

\* C9: a job ends with exactly one outcome: the result persisted and the
\* redirect taken with no error shown, or exactly one error shown and
\* nothing persisted; never data persisted together with an error.
C9_OneOutcome ==
    /\ (pc = "done" /\ tx # "active") =>
          (db = <<storagePacket>> /\ redirected /\ errors = <<>>)
    /\ pc = "failed" => (Len(errors) = 1 /\ db = <<OldPacket>> /\ ~redirected)
    /\ pc \notin {"done", "failed"} => (errors = <<>> /\ ~redirected)
    /\ errors # <<>> => db = <<OldPacket>>
    /\ storeCalls <= 1

\* C10: every group's total and every breakdown entry is >= 0, whatever the
\* cells are.
C10_NonNegative ==
    \A i \in 1..Len(globalAggregates) :
        /\ ~globalAggregates[i].total.nan
        /\ globalAggregates[i].total.n >= 0
        /\ \A c \in DOMAIN globalAggregates[i].breakdown :
              /\ ~globalAggregates[i].breakdown[c].nan
              /\ globalAggregates[i].breakdown[c].n >= 0

(***************************************************************************)
(* The dashboard page (src/dashboard.js): the share dialog that makes a    *)
(* snapshot link, and the page load that opens one.  The file holds two    *)
(* builds of the script: build = "first" is lines 1-946, build = "second"  *)
(* lines 947-1653.  The CryptoJS and Chart libraries are loaded.           *)
(*                                                                         *)
(* A JavaScript value is a record whose field type names its type; an      *)
(* object holds its own properties as a function from names to values.     *)
(***************************************************************************)
JUndef == [type |-> "undefined"]

JNull == [type |-> "null"]

JBool(b) == [type |-> "boolean", bool |-> b]

\* a number: num is a record [nan, n]
JNum(x) == [type |-> "number", num |-> x]

\* a string: str is its sequence of characters
JStr(cs) == [type |-> "string", str |-> cs]

JArr(items) == [type |-> "array", items |-> items]

JObj(props) == [type |-> "object", props |-> props]

\* the string CryptoJS.AES.encrypt(text, key).toString() gives
JCipher(text, key) == [type |-> "string", cipher |-> [plain |-> text, key |-> key]]

\* a string that is no output of CryptoJS.AES.encrypt
JNoCipher == [type |-> "string", junk |-> TRUE]

\* !!v
Truthy(v) ==
    CASE v.type \in {"undefined", "null"} -> FALSE
      [] v.type = "boolean" -> v.bool
      [] v.type = "number" -> ~v.num.nan /\ v.num.n # 0
      [] v.type = "string" -> ("str" \in DOMAIN v) => v.str # <<>>
      [] OTHER -> TRUE

\* v.k throws a TypeError
PropThrows(v) == v.type \in {"undefined", "null"}

\* v.k for one of the names e, d, ts, t, tv, bv, s, sharedBy, sharedAt
Prop(v, k) ==
    IF v.type = "object" /\ k \in DOMAIN v.props THEN v.props[k] ELSE JUndef

\* JSON.stringify and JSON.parse: a text is the value it denotes, or no
\* JSON at all, or the empty string
JsonText(v) == [text |-> "json", json |-> v]

NotJsonText == [text |-> "garbage"]

EmptyText == [text |-> "empty"]

\* the value JSON.parse gives back for what JSON.stringify wrote of v:
\* NaN is written as null, a property holding undefined is left out, an
\* array element holding undefined is written as null
RECURSIVE Jsonify(_)
Jsonify(v) ==
    CASE v.type = "number" -> IF v.num.nan THEN JNull ELSE v
      [] v.type = "array" ->
            JArr([i \in 1..Len(v.items) |->
                    IF v.items[i].type = "undefined" THEN JNull
                    ELSE Jsonify(v.items[i])])
      [] v.type = "object" ->
            JObj([k \in {x \in DOMAIN v.props : v.props[x].type # "undefined"} |->
                    Jsonify(v.props[k])])
      [] OTHER -> v

\* JSON.stringify(v)
JSONstringify(v) == JsonText(Jsonify(v))

\* JSON.parse(text) throws a SyntaxError
JSONparseThrows(text) == text.text # "json"

\* JSON.parse(text)
JSONparse(text) == text.json

(***************************************************************************)
(* The datasets the store can hold.                                        *)
(***************************************************************************)
\* data.slice(0, 10)
TopN == 10

\* groups of the largest dataset
MaxGroups == 11

\* the decimal numeral of i, 0 <= i < 100
Numeral(i) == IF i < 10 THEN <<Digits[i + 1]>> ELSE <<Digits[(i \div 10) + 1], Digits[(i % 10) + 1]>>

\* the key of the i-th group
KeyOf(i) == <<"S">> \o Numeral(i)

\* a result of n groups, sorted by total: totals falling by one, or all equal
ResultData(n, falling) ==
    [i \in 1..n |->
        [state |-> KeyOf(i),
         total |-> Num(IF falling THEN n - i + 1 ELSE 5),
         breakdown |-> [c \in {F_age} |-> Num(IF falling THEN n - i + 1 ELSE 5)]]]

DataSizes == {0, 1, 2, TopN, MaxGroups}

Packets ==
    {StoragePacket(<<F_age>>, ResultData(n, falling)) :
        n \in DataSizes, falling \in BOOLEAN}

(***************************************************************************)
(* The share dialog: generateBtn.                                          *)
(***************************************************************************)
\* Top10 without the slice: every group is listed
Top10NoSlice(data) ==
    [i \in 1..Len(data) |->
        JObj([k \in {"s", "t"} |->
                IF k = "s" THEN JStr(data[i].state) ELSE JNum(data[i].total)])]

\* data.slice(0, 10).map(d => ({ s: d.state, t: d.total }))
Top10(data) ==
    [i \in 1..Min(TopN, Len(data)) |->
        JObj([k \in {"s", "t"} |->
                IF k = "s" THEN JStr(data[i].state) ELSE JNum(data[i].total)])]

\* data.reduce((acc, curr) => acc + curr.total, 0)
RECURSIVE ReduceTotal(_, _)
ReduceTotal(acc, data) ==
    IF data = <<>> THEN acc ELSE ReduceTotal(Plus(acc, Head(data).total), Tail(data))

\* new Date().toISOString()
SharedAt == JStr(<<"T">>)

\* const summary = { t, ts, tv, bs, bv, d, sharedBy, sharedAt }; the second
\* build has no sharedBy and no sharedAt
Summary(b, data, sharerName) ==
    LET base == [k \in {"t", "ts", "tv", "bs", "bv", "d"} |->
                    CASE k = "t" -> JNum(ReduceTotal(Num(0), data))
                      [] k = "ts" -> JStr(data[1].state)
                      [] k = "tv" -> JNum(data[1].total)
                      [] k = "bs" -> JStr(data[Len(data)].state)
                      [] k = "bv" -> JNum(data[Len(data)].total)
                      [] k = "d" -> JArr(Top10(data))]
    IN  IF b = "first"
        THEN JObj([k \in DOMAIN base \cup {"sharedBy", "sharedAt"} |->
                    CASE k = "sharedBy" -> JStr(sharerName)
                      [] k = "sharedAt" -> SharedAt
                      [] OTHER -> base[k]])
        ELSE JObj(base)

\* payload = { e: true, d: ciphertext } or { e: false, d: summary }
Payload(summary, password) ==
    IF password # <<>>
    THEN JObj([k \in {"e", "d"} |->
                IF k = "e" THEN JBool(TRUE)
                ELSE JCipher(JSONstringify(summary), password)])
    ELSE JObj([k \in {"e", "d"} |-> IF k = "e" THEN JBool(FALSE) ELSE summary])

\* btoa(encodeURIComponent(jsonStr).replace(...)): the base64 of the UTF-8
\* bytes of the text; encodeURIComponent(encoded) in the link and
\* URLSearchParams.get on the other side give the same base64 back
Btoa(text) == [b64 |-> text]

\* what the sharer types into sharerNameInput and passInput
SharerNames == {<<>>, <<" ", "A">>}

SharerPasswords == {<<>>, <<" ">>, <<"p">>, <<"p", " ">>}

\* nothing has been shared
NotShared == [made |-> FALSE]

(***************************************************************************)
(* The page load: DOMContentLoaded.                                        *)
(***************************************************************************)
\* the passphrase of the encrypted tokens that no share dialog made
CraftedKey == <<"p">>

\* a summary that lacks the properties named in missing
CraftedSummary(missing) ==
    JObj([k \in {"t", "ts", "tv", "bs", "bv", "d"} \ missing |->
            CASE k \in {"t", "tv", "bv"} -> JNum(Num(1))
              [] k \in {"ts", "bs"} -> JStr(<<"X">>)
              [] k = "d" -> JArr(<<>>)])

\* the values of the snapshot parameter: none, the link the share dialog
\* made, and tokens that no share dialog made
TokenIds ==
    {"absent",        \* no snapshot parameter: urlParams.get gives null
     "empty",         \* ?snapshot=
     "blank",         \* ?snapshot=%20
     "badBase64",     \* atob throws
     "notJson",       \* base64 of text that is no JSON
     "jsonNull",      \* base64 of null
     "noTs",          \* { e: false, d: summary without ts }
     "tsOnly",        \* { ts: "X" }
     "encNoCipher",   \* { e: true }
     "encInvalid",    \* { e: true, d: encrypt("{}") }
     "encTsOnly",     \* { e: true, d: encrypt('{"ts":"X"}') }
     "encJunk",       \* { e: true, d: "xyz" }
     "link"}          \* the link of the share dialog

\* atob or decodeURIComponent throws on the token
DecodeThrows(id) == id \in {"blank", "badBase64"}

\* decodedStr
Decoded(id) ==
    CASE id = "notJson" -> NotJsonText
      [] id = "jsonNull" -> JsonText(JNull)
      [] id = "noTs" ->
            JsonText(JObj([k \in {"e", "d"} |->
                            IF k = "e" THEN JBool(FALSE) ELSE CraftedSummary({"ts"})]))
      [] id = "tsOnly" -> JsonText(CraftedSummary({"t", "tv", "bs", "bv", "d"}))
      [] id = "encNoCipher" -> JsonText(JObj([k \in {"e"} |-> JBool(TRUE)]))
      [] id = "encInvalid" ->
            JsonText(JObj([k \in {"e", "d"} |->
                            IF k = "e" THEN JBool(TRUE)
                            ELSE JCipher(JsonText(JObj(<<>>)), CraftedKey)]))
      [] id = "encTsOnly" ->
            JsonText(JObj([k \in {"e", "d"} |->
                            IF k = "e" THEN JBool(TRUE)
                            ELSE JCipher(JsonText(CraftedSummary({"t", "tv", "bs", "bv", "d"})),
                                         CraftedKey)]))
      [] id = "encJunk" ->
            JsonText(JObj([k \in {"e", "d"} |->
                            IF k = "e" THEN JBool(TRUE) ELSE JNoCipher]))
      [] id = "link" -> shared.link.b64

\* if (snapshotCode && typeof snapshotCode === 'string' && snapshotCode.trim() !== '')
\* in the first build, if (snapshotCode) in the second
HasSnapshot(b, id) ==
    IF b = "first" THEN id \notin {"absent", "empty", "blank"}
    ELSE id \notin {"absent", "empty"}

\* formatNumber(num) throws: num.toString() of undefined or null
FormatThrows(num) == num.type \in {"undefined", "null"}

\* loadSnapshotData(summary) throws: summary.d.map, item.s, formatNumber
LoadThrows(b, summary) ==
    LET d == Prop(summary, "d")
    IN  \/ d.type # "array"
        \/ \E i \in 1..Len(d.items) : PropThrows(d.items[i])
        \/ FormatThrows(Prop(summary, "t"))
        \/ FormatThrows(Prop(summary, "tv"))
        \/ b = "second" /\ FormatThrows(Prop(summary, "bv"))

\* the try block of the snapshot branch: the prompt, the snapshot on the
\* page, or an exception for the catch
DecodeOutcome(b, id) ==
    IF DecodeThrows(id) \/ JSONparseThrows(Decoded(id)) THEN [kind |-> "throws"]
    ELSE
    LET payload == JSONparse(Decoded(id))
    IN  IF PropThrows(payload) THEN [kind |-> "throws"]
        ELSE IF Truthy(Prop(payload, "e")) /\ Truthy(Prop(payload, "d"))
        THEN [kind |-> "encrypted", d |-> Prop(payload, "d")]
        ELSE LET summary == IF Truthy(Prop(payload, "d")) /\ ~Truthy(Prop(payload, "e"))
                            THEN Prop(payload, "d")
                            ELSE payload
             IN  IF ~Truthy(Prop(summary, "ts")) \/ LoadThrows(b, summary)
                 THEN [kind |-> "throws"]
                 ELSE [kind |-> "snapshot", summary |-> summary]

\* a dashboard page that is loading
PageLoading ==
    /\ view = "loading"
    /\ rendered = JUndef
    /\ dbRead = FALSE
    /\ ciphertext = JUndef
    /\ unlockPass = <<>>
    /\ unlockError = ""
    /\ escaped = FALSE

InitDashboard ==
    /\ JobClosed
    /\ FnIdle
    /\ db \in {<<>>} \cup {<<packet>> : packet \in Packets}
    /\ idb = "store"
    /\ build \in {"first", "second"}
    /\ snapshotCode \in TokenIds \ {"link"}
    /\ shared = NotShared
    /\ PageLoading

\* DOMContentLoaded up to its first await or return
LoadStart ==
    /\ view = "loading"
    /\ ~dbRead
    /\ LET out == IF HasSnapshot(build, snapshotCode)
                  THEN DecodeOutcome(build, snapshotCode)
                  ELSE [kind |-> "none"]
       IN  CASE out.kind = "encrypted" ->
                    /\ view' = "prompt"
                    /\ ciphertext' = out.d
                    /\ UNCHANGED <<rendered, dbRead, idb>>
             [] out.kind = "snapshot" ->
                    /\ view' = "snapshot"
                    /\ rendered' = out.summary
                    /\ UNCHANGED <<ciphertext, dbRead, idb>>
             [] OTHER ->
                    /\ dbRead' = TRUE
                    /\ idb' = IF idb = "absent" THEN "noStore" ELSE idb
                    /\ UNCHANGED <<view, rendered, ciphertext>>
    /\ UNCHANGED <<jobVars, fnVars, build, snapshotCode, unlockPass, unlockError,
                   escaped, shared>>

\* getDataFromDB resolves: the dataset of the store on the page, or the
\* redirect to index.html when there is none
DbLoaded ==
    /\ view = "loading"
    /\ dbRead
    /\ idb = "store"
    /\ view' = IF db = <<>> THEN "index" ELSE "local"
    /\ UNCHANGED <<jobVars, idb, fnVars, build, snapshotCode, rendered, dbRead, ciphertext,
                   unlockPass, unlockError, escaped, shared>>

\* getDataFromDB rejects (open error, timeout, request error): the outer
\* catch writes 'Failed to load data'
DbFailed ==
    /\ view = "loading"
    /\ dbRead
    /\ view' = "failed"
    /\ UNCHANGED <<jobVars, idb, fnVars, build, snapshotCode, rendered, dbRead, ciphertext,
                   unlockPass, unlockError, escaped, shared>>

\* click on generateBtn: the summary of the dataset on the page, encrypted
\* when a password is given, as a link
GenerateClick ==
    /\ view = "local"
    /\ \E name \in SharerNames, pass \in SharerPasswords :
          LET data == db[1].data
              sharerName == trim(name)
              password == trim(pass)
          IN  IF build = "first" /\ sharerName = <<>>
              THEN UNCHANGED <<shared, escaped>>
              ELSE IF Len(data) = 0
              THEN /\ escaped' = TRUE
                   /\ UNCHANGED shared
              ELSE /\ shared' =
                        [made |-> TRUE,
                         data |-> data,
                         name |-> name,
                         pass |-> pass,
                         summary |-> Summary(build, data, sharerName),
                         link |-> Btoa(JSONstringify(
                                    Payload(Summary(build, data, sharerName), password)))]
                   /\ UNCHANGED escaped
    /\ UNCHANGED <<jobVars, idb, fnVars, build, snapshotCode, view, rendered, dbRead,
                   ciphertext, unlockPass, unlockError>>

\* the link is opened: a new page load with the link's snapshot parameter
OpenLink ==
    /\ shared.made
    /\ view = "local"
    /\ snapshotCode' = "link"
    /\ view' = "loading"
    /\ rendered' = JUndef
    /\ dbRead' = FALSE
    /\ ciphertext' = JUndef
    /\ unlockPass' = <<>>
    /\ unlockError' = ""
    /\ escaped' = FALSE
    /\ UNCHANGED <<jobVars, idb, fnVars, build, shared>>

(***************************************************************************)
(* handleEncryptedSnapshot: the click on unlockBtn.                        *)
(***************************************************************************)
\* passwords submitted to one prompt
MaxAttempts == 2

\* what the viewer types into unlockPassword
ViewerPasswords == {<<>>, <<"p">>, <<"p", " ">>, <<"q">>}

MsgIncorrect == "Incorrect password"

MsgEnterPassword == "Please enter a password"

\* pass is the key c was encrypted with
Decrypts(c, pass) ==
    /\ c.type = "string"
    /\ "cipher" \in DOMAIN c
    /\ c.cipher.key = pass

\* CryptoJS.AES.decrypt(c, pass) followed by bytes.toString(CryptoJS.enc.Utf8):
\* the plain text under the key; under any other key, or for a c that
\* CryptoJS.AES.encrypt did not make, bytes that are malformed UTF-8 (an
\* exception), no bytes, text that is no JSON, or a digit
DecryptOutcomes(c, pass) ==
    IF Decrypts(c, pass)
    THEN {[kind |-> "text", text |-> c.cipher.plain]}
    ELSE {[kind |-> "throws"],
          [kind |-> "text", text |-> EmptyText],
          [kind |-> "text", text |-> NotJsonText],
          [kind |-> "text", text |-> JsonText(JNum(Num(7)))]}

\* the check of the decrypted data before loadSnapshotData:
\* decryptedData && decryptedData.ts && decryptedData.d in the first build,
\* decryptedData && decryptedData.ts in the second
Validates(b, v) ==
    /\ Truthy(v)
    /\ Truthy(Prop(v, "ts"))
    /\ b = "first" => Truthy(Prop(v, "d"))

\* Unlocked without the check of the decrypted data: whatever parses is
\* put on the page
UnlockedUnchecked(b, out) ==
    IF out.kind = "throws" THEN [ok |-> FALSE]
    ELSE IF out.text.text = "empty" \/ JSONparseThrows(out.text) THEN [ok |-> FALSE]
    ELSE [ok |-> TRUE, summary |-> JSONparse(out.text)]

\* the try block of the click handler for one outcome of the decryption:
\* the summary to load, or none
Unlocked(b, out) ==
    IF out.kind = "throws" THEN [ok |-> FALSE]
    ELSE IF out.text.text = "empty" \/ JSONparseThrows(out.text) THEN [ok |-> FALSE]
    ELSE LET decryptedData == JSONparse(out.text)
         IN  IF Validates(b, decryptedData) /\ ~LoadThrows(b, decryptedData)
             THEN [ok |-> TRUE, summary |-> decryptedData]
             ELSE [ok |-> FALSE]

\* click on unlockBtn
UnlockClick ==
    /\ view = "prompt"
    /\ Len(unlockPass) < MaxAttempts
    /\ \E pass \in ViewerPasswords :
          /\ unlockPass' = Append(unlockPass, pass)
          /\ IF build = "first" /\ pass = <<>>
             THEN /\ unlockError' = MsgEnterPassword
                  /\ UNCHANGED <<view, rendered>>
             ELSE \E out \in DecryptOutcomes(ciphertext, pass) :
                    LET u == Unlocked(build, out)
                    IN  IF u.ok
                        THEN /\ view' = "snapshot"
                             /\ rendered' = u.summary
                             /\ unlockError' = IF build = "first" THEN "" ELSE unlockError
                        ELSE /\ unlockError' = MsgIncorrect
                             /\ UNCHANGED <<view, rendered>>
    /\ UNCHANGED <<jobVars, idb, fnVars, build, snapshotCode, dbRead, ciphertext, escaped,
                   shared>>

NextDashboard ==
    \/ LoadStart
    \/ DbLoaded
    \/ DbFailed
    \/ GenerateClick
    \/ OpenLink
    \/ UnlockClick

SpecDashboard == InitDashboard /\ [][NextDashboard]_vars

(***************************************************************************)
(* The pages of one browser: the dashboard and the direct-upload page,     *)
(* with the file selections of the user.                                   *)
(***************************************************************************)
MsgNoCsv == "No CSV files found in the ZIP archive"

MsgZip == "Failed to read ZIP file."

\* the messages of handleFileSelect that are followed
MaxMessages == 2

\* the files the user selects or drops
PageFiles == {CsvFile(HdrStd), ZipFile(<<HdrNoName, HdrStd>>)}

\* a browser without the database, no page open
InitPage ==
    /\ JobClosed
    /\ db = <<>>
    /\ idb = "absent"
    /\ FnIdle
    /\ ShareIdle

\* the dashboard is opened without a snapshot parameter
OpenDashboard ==
    /\ view = "closed"
    /\ variant = "none" \/ pc \in {"done", "failed"}
    /\ build' = "first"
    /\ view' = "loading"
    /\ UNCHANGED <<jobVars, idb, fnVars, snapshotCode, rendered, dbRead, ciphertext,
                   unlockPass, unlockError, escaped, shared>>

\* the direct-upload page is opened: nothing is selected
OpenUploadPage ==
    /\ variant = "none"
    /\ view # "loading"
    /\ variant' = "uploadFile"
    /\ UNCHANGED <<selectedFile, extractedCsvFiles, uploadBtnDisabled, uploadingCardShown,
                   pc, filesToProcess, fileIdx, detectVars, globalAggregates,
                   schemaVars, storagePacket, db, tx, errors, redirected, storeCalls,
                   delivered, parseErrorAt, ref, cause, cancelRequested,
                   envVars, idb, fnVars, shareVars>>

\* change of fileInput or drop on dropZone: handleFileSelect(file) up to its
\* await of extractCsvFromZip for an archive, to its end for any other file
HandleFileSelect ==
    /\ variant = "uploadFile"
    /\ \E file \in PageFiles :
          /\ selectedFile' = file
          /\ extractedCsvFiles' = <<>>
          /\ uploadingCardShown' = FALSE
          /\ IF file.kind = "zip"
             THEN /\ extracting' = extracting \cup {file}
                  /\ UNCHANGED uploadBtnDisabled
             ELSE /\ uploadBtnDisabled' = FALSE
                  /\ UNCHANGED extracting
    /\ UNCHANGED <<variant, pc, filesToProcess, fileIdx, detectVars, globalAggregates,
                   schemaVars, storagePacket, db, tx, errors, redirected, storeCalls,
                   delivered, parseErrorAt, ref, cause, cancelRequested,
                   parsing, atClick, idb, fnVars, shareVars>>

\* extractCsvFromZip resolves: handleFileSelect from its await to its end
ExtractionDone ==
    /\ \E file \in extracting :
          /\ Len(Extracted(file)) = 0 => Len(errors) < MaxMessages
          /\ extracting' = extracting \ {file}
          /\ extractedCsvFiles' = Extracted(file)
          /\ IF Len(Extracted(file)) = 0
             THEN /\ errors' = Append(errors, MsgNoCsv)
                  /\ selectedFile' = NoFile
                  /\ UNCHANGED uploadBtnDisabled
             ELSE /\ uploadBtnDisabled' = FALSE
                  /\ UNCHANGED <<selectedFile, errors>>
    /\ UNCHANGED <<variant, uploadingCardShown, pc, filesToProcess, fileIdx, detectVars,
                   globalAggregates, schemaVars, storagePacket, db, tx, redirected,
                   storeCalls, delivered, parseErrorAt, ref, cause, cancelRequested,
                   parsing, atClick, idb, fnVars, shareVars>>

\* extractCsvFromZip rejects: the catch of handleFileSelect
ExtractionFailed ==
    /\ Len(errors) < MaxMessages
    /\ \E file \in extracting : extracting' = extracting \ {file}
    /\ errors' = Append(errors, MsgZip)
    /\ selectedFile' = NoFile
    /\ UNCHANGED <<variant, extractedCsvFiles, uploadBtnDisabled, uploadingCardShown, pc,
                   filesToProcess, fileIdx, detectVars, globalAggregates, schemaVars,
                   storagePacket, db, tx, redirected, storeCalls, delivered,
                   parseErrorAt, ref, cause, cancelRequested,
                   parsing, atClick, idb, fnVars, shareVars>>

\* the selections of the user and the job up to the choice of its sources
NextSelect ==
    \/ OpenUploadPage
    \/ HandleFileSelect
    \/ ExtractionDone
    \/ ExtractionFailed
    \/ ClearFile
    \/ UploadClick
    \/ ProgressDone

SpecSelect == InitPage /\ [][NextSelect]_vars

\* the direct-upload page is opened and handleFileSelect has run to its end
\* on a file
OpenUploadSelected ==
    /\ variant = "none"
    /\ view # "loading"
    /\ variant' = "uploadFile"
    /\ \E file \in PageFiles :
          /\ selectedFile' = file
          /\ extractedCsvFiles' = Extracted(file)
    /\ uploadBtnDisabled' = FALSE
    /\ UNCHANGED <<uploadingCardShown, pc, filesToProcess, fileIdx, detectVars,
                   globalAggregates, schemaVars, storagePacket, db, tx, errors,
                   redirected, storeCalls, delivered, parseErrorAt, ref, cause,
                   cancelRequested, envVars, idb, fnVars, shareVars>>

\* visits of the dashboard and of the direct-upload page, one after another
NextVisits ==
    \/ OpenDashboard
    \/ LoadStart
    \/ DbLoaded
    \/ DbFailed
    \/ OpenUploadSelected
    \/ UploadClick
    \/ ProgressDone
    \/ UploadChunk
    \/ UploadComplete
    \/ UploadParserError
    \/ UploadStored
    \/ UploadTxCommitted
    \/ UploadTxAborted
    \/ UploadStoreFailed

SpecVisits == InitPage /\ [][NextVisits]_vars

(***************************************************************************)
(* generateInsights: the dominant category, applied on its own.            *)
(***************************************************************************)
MaxInsightCols == 2

MaxInsightGroups == 2

F_two == <<"2">>

\* the names of category columns tried
InsightCols == {F_age, F_cnt, F_two}

\* the ageCols of a packet: up to MaxInsightCols different columns
InsightAgeCols ==
    {cols \in UNION {[1..k -> InsightCols] : k \in 1..MaxInsightCols} :
        \A i, j \in 1..Len(cols) : i # j => cols[i] # cols[j]}

\* the breakdown entries tried
InsightValues == {Num(0), Num(1), Num(0 - 1)}

\* the data of a packet with the category columns cols
InsightData(cols) ==
    UNION {[1..n -> [state : {<<"X">>}, total : {Num(0)},
                     breakdown : [Range(cols) -> InsightValues]]] :
            n \in 1..MaxInsightGroups}

\* Object.entries(ageSums): the integer-index names in ascending numeric
\* order, then the other names in the order they were assigned
RECURSIVE AscendingNames(_)
AscendingNames(names) ==
    IF names = {} THEN <<>>
    ELSE LET k == CHOOSE x \in names :
                    \A y \in names : DigitsValue(x, 0) <= DigitsValue(y, 0)
         IN  <<k>> \o AscendingNames(names \ {k})

ObjectKeys(cols) ==
    LET NotIndex(k) == ~IsArrayIndex(k)
    IN  AscendingNames({k \in Range(cols) : IsArrayIndex(k)}) \o SelectSeq(cols, NotIndex)

\* data.forEach(row => ...): what the rows add to ageSums[col]
RECURSIVE AgeSum(_, _, _, _)
AgeSum(b, data, col, sum) ==
    IF data = <<>> THEN sum
    ELSE LET row == Head(data)
             has == col \in DOMAIN row.breakdown
             val == IF has THEN row.breakdown[col] ELSE NaN
             next == IF b = "first"
                     THEN IF has /\ ~val.nan /\ val.n # 0 THEN Plus(sum, val) ELSE sum
                     ELSE Plus(sum, val)
         IN  AgeSum(b, Tail(data), col, next)

\* for (const [col, val] of Object.entries(ageSums)) if (val > maxAgeVal) ...
RECURSIVE MaxEntry(_, _, _, _, _)
MaxEntry(b, data, keys, dominantAgeCol, maxAgeVal) ==
    IF keys = <<>> THEN dominantAgeCol
    ELSE LET val == AgeSum(b, data, Head(keys), Num(0))
         IN  IF ~val.nan /\ val.n > maxAgeVal
             THEN MaxEntry(b, data, Tail(keys), Head(keys), val.n)
             ELSE MaxEntry(b, data, Tail(keys), dominantAgeCol, maxAgeVal)

\* dominantAgeCol of generateInsights(data, ageCols) in build b
DominantAgeCol(b, data, ageCols) ==
    MaxEntry(b, data, ObjectKeys(ageCols), ageCols[1], 0)

\* generateInsights on a packet with groups and category columns
Insights ==
    /\ res = <<>>
    /\ \E b \in {"first", "second"}, cols \in InsightAgeCols :
          \E data \in InsightData(cols) :
             /\ arg' = [build |-> b, data |-> data, ageCols |-> cols]
             /\ res' = [fn |-> "generateInsights", data |-> data,
                        val |-> DominantAgeCol(b, data, cols)]
    /\ UNCHANGED <<jobVars, idb, shareVars>>

NextInsights ==
    \/ Insights

SpecInsights == InitCoerce /\ [][NextInsights]_vars

\* the text the coercion parses: String(cell) without its commas
Stripped(cell) == replaceCommas(String(cell))

\* s is wholly a number: an optional sign and digits, white space around it
IsWholeNumber(s) ==
    LET t == trim(s)
        body == IF t # <<>> /\ Head(t) \in {"-", "+"} THEN Tail(t) ELSE t
    IN  body # <<>> /\ \A i \in 1..Len(body) : IsDigit(body[i])

\* C11: the coercion returns a number for every cell value: the value of
\* the cell when the cell without its commas is wholly a number ("1,234"
\* gives 1234), and 0 for "", "abc", null, undefined and every other cell
\* that is not wholly a number, such as "12abc".
C11_CoercionTotal ==
    res # <<>> =>
        /\ ~res.val.nan
        /\ arg \in {<<>>, <<"a", "b", "c">>, NULL, UNDEFINED} => res.val.n = 0
        /\ arg = <<"1", ",", "2", "3", "4">> => res.val.n = 1234
        /\ ~IsNumberCell(arg) /\ ~IsWholeNumber(Stripped(arg)) => res.val.n = 0

\* the password submitted last to unlockBtn
LastPass == unlockPass[Len(unlockPass)]

\* the page has the shared summary on it
SharedLoaded ==
    /\ view = "snapshot"
    /\ rendered = shared.summary

\* C12: for every summary and every passphrase the sharer enters (none,
\* or one with white space around it), opening the generated link and
\* unlocking it with the passphrase as entered loads the summary that was
\* encoded, equal in every field.
C12_RoundTrip ==
    snapshotCode = "link" =>
        /\ (trim(shared.pass) = <<>> /\ view # "loading") => SharedLoaded
        /\ (unlockPass # <<>> /\ LastPass = shared.pass) => SharedLoaded

\* C13: a wrong passphrase never loads snapshot data and never throws out
\* of the handler: the page stays on the prompt with 'Incorrect password'
\* shown, another passphrase can be submitted, and a later correct
\* passphrase loads the snapshot.
C13_WrongPassphraseRetry ==
    unlockPass # <<>> =>
        IF Decrypts(ciphertext, LastPass)
        THEN snapshotCode = "link" => SharedLoaded
        ELSE /\ view = "prompt"
             /\ rendered = JUndef
             /\ ~escaped
             /\ unlockError # ""
             /\ LastPass # <<>> => unlockError = MsgIncorrect

\* C13 witness: a wrong passphrase, then the correct one, and the snapshot
\* is on the page.
C13_Witness ==
    /\ snapshotCode = "link"
    /\ Len(unlockPass) = 2
    /\ unlockPass[1] # <<>>
    /\ ~Decrypts(ciphertext, unlockPass[1])
    /\ Decrypts(ciphertext, unlockPass[2])
    /\ SharedLoaded

\* C14: on the encrypted path, a payload that decrypts and parses but lacks
\* required fields ends in an outcome other than the one of a wrong
\* passphrase ('Incorrect password').
C14_InvalidPayloadDistinct ==
    (view = "prompt" /\ unlockPass # <<>> /\ Decrypts(ciphertext, LastPass)) =>
        unlockError # MsgIncorrect

\* the token is malformed or no share dialog made it
Malformed(id) ==
    id \in {"badBase64", "notJson", "jsonNull", "noTs", "tsOnly", "encNoCipher"}

\* C15: a malformed token fails cleanly: no exception escapes, no snapshot
\* data is on the page, and the page does not show the dataset of the
\* store in its place.
C15_MalformedTokenFails ==
    Malformed(snapshotCode) =>
        /\ ~escaped
        /\ rendered = JUndef
        /\ view # "local"

\* the payload of the token has a truthy e
MarkedEncrypted(id) ==
    /\ id \notin {"absent", "empty", "blank"}
    /\ ~DecodeThrows(id)
    /\ ~JSONparseThrows(Decoded(id))
    /\ ~PropThrows(JSONparse(Decoded(id)))
    /\ Truthy(Prop(JSONparse(Decoded(id)), "e"))

\* a password submitted so far decrypts the ciphertext
Opened == \E i \in 1..Len(unlockPass) : Decrypts(ciphertext, unlockPass[i])

\* C16: for a token marked encrypted the store is never read, and until a
\* passphrase that decrypts has been submitted nothing is on the page and
\* the page stays on the password prompt.
C16_EncryptedDeferred ==
    MarkedEncrypted(snapshotCode) =>
        /\ ~dbRead
        /\ ~Opened => (rendered = JUndef /\ view \in {"loading", "prompt"})

\* the sum of the totals of the groups at the positions in I
RECURSIVE TotalOver(_, _)
TotalOver(data, I) ==
    IF I = {} THEN 0
    ELSE LET i == CHOOSE x \in I : TRUE
         IN  data[i].total.n + TotalOver(data, I \ {i})

\* C17: the summary lists at most 10 groups, the first min(10, n) groups of
\* the result in order; its grand total is the sum over all n groups; its
\* top group is the first and its bottom group the last of the result.
C17_SummaryOfResult ==
    shared.made =>
        LET data == shared.data
            n == Len(data)
            sm == shared.summary.props
            d == sm["d"].items
        IN  /\ Len(d) <= 10
            /\ Len(d) = Min(10, n)
            /\ \A i \in 1..Len(d) :
                    /\ d[i].props["s"] = JStr(data[i].state)
                    /\ d[i].props["t"] = JNum(data[i].total)
            /\ sm["t"] = JNum(Num(TotalOver(data, 1..n)))
            /\ sm["ts"] = JStr(data[1].state)
            /\ sm["tv"] = JNum(data[1].total)
            /\ sm["bs"] = JStr(data[n].state)
            /\ sm["bv"] = JNum(data[n].total)

\* C17 witness: a summary made of a result of more than 10 groups.
C17_Witness ==
    /\ shared.made
    /\ Len(shared.data) > 10

(***************************************************************************)
(* C18: a job that fails because the storage of the origin is used up     *)
(* shows a failure that differs from the one shown for any other storage  *)
(* error and from the one shown for a parser or processing error.         *)
(***************************************************************************)
C18_StorageExhaustedDistinct ==
    (pc = "failed" /\ cause = "QuotaExceededError") =>
        \A other \in Causes \ {"QuotaExceededError"} :
            errors[Len(errors)] # CatchMessage(variant, other)

(***************************************************************************)
(* C19: once the removal of the file is requested under a running job, no *)
(* further chunk is aggregated, the result of the job is not stored and   *)
(* the page is not redirected to the dashboard.                           *)
(***************************************************************************)
C19_CancellationStopsJob ==
    [][cancelRequested =>
          /\ globalAggregates' = globalAggregates
          /\ delivered' = delivered
          /\ storeCalls' = storeCalls
          /\ db' = db
          /\ (redirected' => redirected)]_vars

(***************************************************************************)
(* C20: in every job the column of the grouping key is none of the        *)
(* category columns, so the key cell of a record is never added to a      *)
(* total.                                                                 *)
(***************************************************************************)
C20_KeyNotCategory ==
    /\ (variant = "uploadFile" /\ ~Falsy(stateCol)) =>
            stateCol \notin Range(globalAgeCols)
    /\ (variant = "processDataWithSchema" /\ pc \notin {"idle", "schema"}) =>
            mappings.state \notin Range(mappings.ageCols)

(***************************************************************************)
(* C21: the column roles are detected once, on the first chunk that has   *)
(* rows; from then on stateCol and globalAgeCols do not change, whatever  *)
(* the header (an empty first field name included), and the breakdown of  *)
(* every group has the category columns as its keys.                      *)
(***************************************************************************)
C21_DetectionOnceFrozen ==
    /\ [][(variant = "uploadFile" /\ delivered > 0) => detectVars' = detectVars]_vars
    /\ [](variant = "uploadFile" =>
            \A i \in 1..Len(globalAggregates) :
                DOMAIN globalAggregates[i].breakdown = Range(globalAgeCols))

(***************************************************************************)
(* C22: the sources of a job are parsed one after another in the order    *)
(* supplied: at most one parse is running, rows are delivered only by the *)
(* parse of the source the loop is waiting for, and the loop moves to the *)
(* next source only when that parse has ended.                            *)
(***************************************************************************)
C22_SourcesInTurn ==
    [][/\ Cardinality(parsing') <= 1
       /\ (delivered' # delivered) => parsing = {fileIdx}
       /\ (fileIdx' # fileIdx /\ fileIdx > 0) =>
                (fileIdx' = fileIdx + 1 /\ fileIdx \notin parsing')]_vars

\* the second source of a job delivers rows
C22_Witness ==
    /\ fileIdx = 2
    /\ parsing = {2}
    /\ delivered > 0
    /\ Len(globalAggregates) > 0

\* the first field of keys whose lower-cased name satisfies Test, by position
FirstWith(keys, Test(_)) ==
    keys[CHOOSE i \in 1..Len(keys) :
            /\ Test(toLowerCase(keys[i]))
            /\ \A j \in 1..(i - 1) : ~Test(toLowerCase(keys[j]))]

SomeWith(keys, Test(_)) == \E i \in 1..Len(keys) : Test(toLowerCase(keys[i]))

(***************************************************************************)
(* C23: the grouping key of a header with at least one field is the       *)
(* first field whose lower-cased name is "state", else the first whose    *)
(* name contains "state", else the first whose name contains "district",  *)
(* else the first field; something is always selected.                    *)
(***************************************************************************)
C23_KeyDetection ==
    (res # <<>> /\ Len(arg) > 0) =>
        LET IsState(k) == k = F_state
            HasState(k) == includes(k, F_state)
            HasDistrict(k) == includes(k, F_district)
        IN  /\ res.val # UNDEFINED
            /\ res.val = IF SomeWith(arg, IsState) THEN FirstWith(arg, IsState)
                         ELSE IF SomeWith(arg, HasState) THEN FirstWith(arg, HasState)
                         ELSE IF SomeWith(arg, HasDistrict) THEN FirstWith(arg, HasDistrict)
                         ELSE arg[1]

(***************************************************************************)
(* C24: for a fixed set of sources the totals and the breakdown values of *)
(* the groups of the result are the same in whichever order the sources   *)
(* are supplied.                                                          *)
(***************************************************************************)
C24_OrderOfSources ==
    res # <<>> => res.given = res.swapped

\* the sum of column col over the groups of data
RECURSIVE ColumnSum(_, _)
ColumnSum(data, col) ==
    IF data = <<>> THEN 0
    ELSE Head(data).breakdown[col].n + ColumnSum(Tail(data), col)

(***************************************************************************)
(* C25: the dominant category is the category column whose sum over all   *)
(* groups is greatest; of several columns with the greatest sum (all sums *)
(* zero included) it is the first in detection order; the data is left as *)
(* it was.                                                                *)
(***************************************************************************)
C25_DominantCategory ==
    res # <<>> =>
        LET cols == arg.ageCols
            IsMax(c) == \A d \in Range(cols) :
                            ColumnSum(arg.data, d) <= ColumnSum(arg.data, c)
            first == CHOOSE i \in 1..Len(cols) :
                        IsMax(cols[i]) /\ \A j \in 1..(i - 1) : ~IsMax(cols[j])
        IN  /\ res.val = cols[first]
            /\ res.data = arg.data

(***************************************************************************)
(* C26: the sources a job parses are those of the file that was selected  *)
(* when uploadBtn was clicked, whatever is selected or removed after the  *)
(* click.                                                                 *)
(***************************************************************************)
C26_SourcesOfTheClick ==
    (variant = "uploadFile" /\ pc \notin {"idle", "progress"}) => filesToProcess = atClick

(***************************************************************************)
(* C27: the entries in extractedCsvFiles are those of the archive that is *)
(* selectedFile, and no job parses an archive itself as delimited text.   *)
(***************************************************************************)
C27_EntriesOfSelection ==
    /\ extractedCsvFiles # <<>> => extractedCsvFiles = Extracted(selectedFile)
    /\ \A i \in 1..Len(filesToProcess) : filesToProcess[i].kind # "zip"

(***************************************************************************)
(* C28: while a job is running uploadBtn is disabled, so no second job    *)
(* can be started.                                                        *)
(***************************************************************************)
C28_OneJob ==
    (variant = "uploadFile" /\ Running) => uploadBtnDisabled

(***************************************************************************)
(* C29: whenever a page opens a transaction on object store               *)
(* enrolment_data the store exists, so the result of a job is stored and  *)
(* the dashboard reads it.                                                *)
(***************************************************************************)
C29_StoreExists ==
    /\ pc = "storing" => idb = "store"
    /\ (view = "loading" /\ dbRead) => idb = "store"
    /\ pc = "failed" => cause # "NotFoundError"

\* the success outcome: the result is in the store and the redirect is scheduled
JobSucceeded ==
    /\ pc = "done"
    /\ redirected
    /\ tx = "committed"
    /\ db = <<storagePacket>>

(***************************************************************************)
(* C30: every started job of uploadFile comes to the success outcome      *)
(* (stored, redirect scheduled) or to a failure, and a failure leaves     *)
(* uploadBtn enabled and the uploading card hidden.                       *)
(***************************************************************************)
C30_JobEnds ==
    /\ (variant = "uploadFile" /\ Running) ~> (JobSucceeded \/ pc = "failed")
    /\ [][(variant = "uploadFile" /\ pc # "failed" /\ pc' = "failed") =>
            (~uploadBtnDisabled' /\ ~uploadingCardShown')]_vars

====
